---- MODULE Spec2Model ----
(***************************************************************************)
(* Model of sync.py: main() loads the configuration, opens the database,   *)
(* extracts four tables (fetch_data), clears the remote copies and uploads *)
(* the records in chunks (clear_and_upload_data), closes the connection    *)
(* and leaves with an exit code.                                           *)
(*                                                                         *)
(* A record is represented by the number of the row it was built from      *)
(* (execute_query builds one dict per fetched row); the dict keys, which   *)
(* are the same for every record of one result set, are kept per table in  *)
(* the variable keys.                                                      *)
(***************************************************************************)
EXTENDS Integers, Sequences, FiniteSets, Bags, TLC

\* ---- bounds of the model ----
\* Row counts of the source tables are multiples of RecUnit, and the source
\* database holds at most MaxUnits units of rows over all four tables.
RecUnit == 400
MaxUnits == 4
\* chunk_data on its own: lists of at most MaxLen records drawn from
\* 1..MaxElem, chunk sizes 1..MaxChunk
MaxLen == 4
MaxElem == 2
MaxChunk == 5
\* the users transform on its own: field values 1..MaxVal
MaxVal == 2
\* transfers in which every request succeeds: row counts are multiples of
\* OkUnit, at most OkMaxUnits units over all tables
OkUnit == 250
OkMaxUnits == 5
\* transfers with any outcome of the requests: row counts are multiples of
\* XferUnit (more than one chunk), at most XferMaxUnits units over all tables
XferUnit == 600
XferMaxUnits == 1

\* ---- program constants ----
\* a chunk size that is off by one
chunk_size_off == 500 + 1
chunk_size == 500
\* a retry loop that makes one attempt too many
retries_one_more == 3 + 1
retries == 3

\* fetch_data's table list (name, projected columns of the query)
tables == <<"products", "batches", "customers", "users">>

Columns(table_name) ==
    CASE table_name = "products" ->
           {"code", "name", "product", "brand", "unit", "taxcode", "defect", "company"}
      [] table_name = "batches" ->
           {"productcode", "cost", "salesprice", "bmrp", "barcode", "secondprice", "thirdprice"}
      [] table_name = "customers" ->
           {"code", "name", "super_code", "address", "phone", "phone2"}
      [] OTHER -> {"id", "pass", "role"}

\* the key of data under which fetch_data stores a table's records
DataKey(table_name) == IF table_name = "customers" THEN "masters" ELSE table_name

\* the users transform: 'pass' becomes 'pass_field'
RenamePass(ks) == IF "pass" \in ks THEN (ks \ {"pass"}) \cup {"pass_field"} ELSE ks

\* a transform without the "if 'pass' in user" guard:
\* user['pass_field'] = user.pop('pass', None), None written 0
transform_unguarded(user) ==
    [k \in (DOMAIN user \ {"pass"}) \cup {"pass_field"} |->
        IF k = "pass_field"
        THEN (IF "pass" \in DOMAIN user THEN user["pass"] ELSE 0)
        ELSE user[k]]

\* the users transform on one record (a function from field names to values):
\* if 'pass' in user: user['pass_field'] = user.pop('pass')
transform(user) ==
    IF "pass" \in DOMAIN user
    THEN [k \in (DOMAIN user \ {"pass"}) \cup {"pass_field"} |->
            IF k = "pass_field" THEN user["pass"] ELSE user[k]]
    ELSE user

\* the order in which clear_and_upload_data walks the tables
table_names == <<"products", "batches", "masters", "users">>

\* the records of rows 1..n, in fetch order
Rows(n) == [i \in 1..n |-> i]

\* row counts a query can return
Sizes == {k * RecUnit : k \in 0..MaxUnits}

\* ---- outcomes of one HTTP attempt ----
Response(code) == [kind |-> "response", status |-> code]
TransportError == [kind |-> "exception", status |-> 0]
StatusCodes == {200, 201, 204, 500}
Outcomes == {Response(c) : c \in StatusCodes} \cup {TransportError}

\* the test make_request_with_retry applies to a response
Accepted(o) == o.kind = "response" /\ o.status \in {200, 204}

\* chunk_data: the slices data_list[i : i + size] for i = 0, size, 2*size, ...
Min(a, b) == IF a < b THEN a ELSE b

RECURSIVE chunk_from(_, _, _)
chunk_from(data_list, size, i) ==
    IF i >= Len(data_list) THEN << >>
    ELSE <<SubSeq(data_list, i + 1, Min(i + size, Len(data_list)))>>
           \o chunk_from(data_list, size, i + size)

\* a chunk_data whose range starts at 1
chunk_data_from_one(data_list, size) == chunk_from(data_list, size, 1)

chunk_data(data_list, size) == chunk_from(data_list, size, 0)

VARIABLES
    pc,           \* position of main()
    config,       \* the loaded configuration: which sections it has
    connOpen,     \* the database connection is open
    opened,       \* number of successful pyodbc.connect calls
    closeCount,   \* number of conn.close() calls
    fetchIdx,     \* fetch_data's loop position in tables
    data,         \* fetch_data's dict: key -> records
    keys,         \* key -> field names of that table's records
    queried,      \* the tables whose query was run, in order
    qfailed,      \* the tables whose query raised pyodbc.Error
    table_index,  \* loop position in table_names (clear and upload loops)
    chunk_index,  \* loop position in chunks
    call,         \* arguments of the current/last make_request_with_retry
    log,          \* outcomes of the attempts of that call, in order
    ret,          \* its return value: "none" while running, else "True"/"False"
    sleeps,       \* number of time.sleep(2) calls of that call
    chunks,       \* the chunk list of the table being uploaded
    clearReq,     \* tables for which a DELETE request was issued
    cleared,      \* tables whose clear returned success
    posts,        \* per table: chunks for which a POST request was issued
    uploaded,     \* per table: chunks whose upload returned success
    success,      \* return value of clear_and_upload_data ("none" before)
    outcome,      \* what main() reported
    exitCode,     \* process exit code (NotExited while running)
    requests,     \* HTTP requests sent so far, per method and table
                  \* (kept in the transfer specifications only)
    remote,       \* the remote service's copy of each table, a bag of rows
                  \* (kept in the transfer specifications only)
    pure          \* argument and results of a function applied on its own

vars == <<pc, config, connOpen, opened, closeCount, fetchIdx, data, keys,
          queried, qfailed, table_index, chunk_index, call, log, ret,
          sleeps, chunks, clearReq, cleared, posts, uploaded, success, outcome,
          exitCode, requests, remote, pure>>

dbVars == <<connOpen, opened, closeCount>>
fetchVars == <<fetchIdx, data, keys, queried, qfailed>>
callVars == <<call, log, ret, sleeps>>
auxVars == <<requests, remote, pure>>
histVars == <<clearReq, cleared, posts, uploaded, auxVars>>
progVars == <<pc, config, dbVars, fetchVars, table_index, chunk_index, chunks,
              callVars, clearReq, cleared, posts, uploaded, success, outcome,
              exitCode>>
xferVars == <<table_index, chunk_index, chunks, callVars, histVars, success>>

NotExited == 0 - 1
NotKept == << >>
NoCall == [method |-> "none", table |-> "none", chunk |-> 0, data |-> << >>]
TableSet == {table_names[i] : i \in 1..Len(table_names)}

\* the program's variables before main() has done anything
Start ==
    /\ pc = "load_config"
    /\ config = [database |-> FALSE, api |-> FALSE]
    /\ connOpen = FALSE
    /\ opened = 0
    /\ closeCount = 0
    /\ fetchIdx = 1
    /\ data = << >>
    /\ keys = << >>
    /\ queried = << >>
    /\ qfailed = {}
    /\ table_index = 1
    /\ chunk_index = 1
    /\ call = NoCall
    /\ log = << >>
    /\ ret = "none"
    /\ sleeps = 0
    /\ chunks = << >>
    /\ clearReq = {}
    /\ cleared = {}
    /\ posts = [t \in TableSet |-> 0]
    /\ uploaded = [t \in TableSet |-> 0]
    /\ success = "none"
    /\ outcome = "none"
    /\ exitCode = NotExited

Init ==
    /\ Start
    /\ requests = NotKept
    /\ remote = NotKept
    /\ pure = NotKept

\* sys.exit(code) after the message msg
Exit(msg, code) ==
    /\ pc' = "exited"
    /\ outcome' = msg
    /\ exitCode' = code

\* main()'s "except Exception" handler
UnexpectedError == Exit("unexpected_error", 1)

\* load_config, called from main
load_config ==
    /\ pc = "load_config"
    /\ \/ \E db \in BOOLEAN, api \in BOOLEAN :
            /\ config' = [database |-> db, api |-> api]
            /\ pc' = "connect"
            /\ UNCHANGED <<outcome, exitCode>>
       \/ \* FileNotFoundError or json.JSONDecodeError
          /\ Exit("config_error", 1)
          /\ UNCHANGED config
       \/ \* any other exception of open() reaches main's handler
          /\ UnexpectedError
          /\ UNCHANGED config
    /\ UNCHANGED <<dbVars, fetchVars, xferVars>>

\* connect_to_database, called from main
connect_to_database ==
    /\ pc = "connect"
    /\ \/ \* a missing key of config['database'] is a KeyError
          /\ ~config.database
          /\ UnexpectedError
          /\ UNCHANGED dbVars
       \/ /\ config.database
          /\ \/ /\ connOpen' = TRUE
                /\ opened' = opened + 1
                /\ pc' = "fetch"
                /\ UNCHANGED <<closeCount, outcome, exitCode>>
             \/ \* pyodbc.Error
                /\ Exit("connection_error", 1)
                /\ UNCHANGED dbVars
    /\ UNCHANGED <<config, fetchVars, xferVars>>

\* rows extracted so far
RECURSIVE TotalRows(_, _)
TotalRows(d, ks) ==
    IF ks = {} THEN 0
    ELSE LET k == CHOOSE x \in ks : TRUE
         IN Len(d[k]) + TotalRows(d, ks \ {k})

\* one iteration of fetch_data's loop once execute_query has returned results
StoreResults(results) ==
    LET table_name == tables[fetchIdx]
        cols == IF results = << >> THEN {} ELSE Columns(table_name)
    IN /\ data' = data @@ (DataKey(table_name) :> results)
       /\ keys' = keys @@ (DataKey(table_name) :>
                     IF table_name = "users" THEN RenamePass(cols) ELSE cols)
       /\ fetchIdx' = fetchIdx + 1
       /\ pc' = IF fetchIdx = Len(tables) THEN "api_config" ELSE "fetch"
       /\ UNCHANGED <<outcome, exitCode>>

\* an execute_query that lets the pyodbc.Error escape
QueryError_raise ==
    /\ qfailed' = qfailed \cup {tables[fetchIdx]}
    /\ UnexpectedError
    /\ UNCHANGED <<fetchIdx, data, keys>>

\* execute_query's "except pyodbc.Error": the error is printed and [] returned
QueryError ==
    /\ qfailed' = qfailed \cup {tables[fetchIdx]}
    /\ StoreResults(<< >>)

\* fetch_data: one iteration of the loop over tables
fetch_data ==
    /\ pc = "fetch"
    /\ queried' = Append(queried, tables[fetchIdx])
    /\ \/ \E n \in Sizes :
            /\ TotalRows(data, DOMAIN data) + n <= MaxUnits * RecUnit
            /\ StoreResults(Rows(n))
            /\ UNCHANGED qfailed
       \/ QueryError
       \/ \* an exception that is not a pyodbc.Error leaves fetch_data
          /\ UnexpectedError
          /\ UNCHANGED <<fetchIdx, data, keys, qfailed>>
    /\ UNCHANGED <<config, dbVars, xferVars>>

\* clear_and_upload_data returns value
Return(value) ==
    /\ success' = value
    /\ pc' = "close"

\* clear_and_upload_data: reading config['api'] (a KeyError is caught by
\* the function's own "except Exception")
api_config ==
    /\ pc = "api_config"
    /\ IF config.api
         THEN /\ pc' = "clear"
              /\ UNCHANGED success
         ELSE Return("False")
    /\ UNCHANGED <<config, dbVars, fetchVars, table_index, chunk_index, chunks,
                   callVars, histVars, outcome, exitCode>>

\* start of a make_request_with_retry call
StartCall(method, table_name, index, payload) ==
    /\ call' = [method |-> method, table |-> table_name, chunk |-> index,
                data |-> payload]
    /\ log' = << >>
    /\ ret' = "none"
    /\ sleeps' = 0

\* a clear loop that clears the first table only
NeedsClear_first_only(table_name) ==
    /\ table_name \in DOMAIN data
    /\ data[table_name] # << >>
    /\ table_name = table_names[1]

\* the condition under which the clear loop clears a table
NeedsClear(table_name) ==
    table_name \in DOMAIN data /\ data[table_name] # << >>

\* the clear loop: one iteration up to the call of make_request_with_retry
clear_loop ==
    /\ pc = "clear"
    /\ IF table_index > Len(table_names)
         THEN /\ pc' = "upload"
              /\ table_index' = 1
              /\ UNCHANGED callVars
         ELSE IF NeedsClear(table_names[table_index])
         THEN /\ StartCall("DELETE", table_names[table_index], 0, << >>)
              /\ pc' = "clear_request"
              /\ UNCHANGED table_index
         ELSE /\ table_index' = table_index + 1
              /\ UNCHANGED <<pc, callVars>>
    /\ UNCHANGED <<config, dbVars, fetchVars, chunk_index, chunks, histVars,
                   success, outcome, exitCode>>

\* a retry loop that also waits after the last failed attempt
ShouldSleep_always(retry) == retry < retries

\* make_request_with_retry: the test before time.sleep(2)
ShouldSleep(retry) == retry < retries - 1

\* make_request_with_retry: one iteration of "for retry in range(retries)"
\* in which the request ends with outcome o
Attempt(o) ==
    /\ pc \in {"clear_request", "upload_request"}
    /\ ret = "none"
    /\ Len(log) < retries
    /\ log' = Append(log, o)
    /\ IF Accepted(o)
         THEN /\ ret' = "True"
              /\ UNCHANGED sleeps
         ELSE /\ sleeps' = IF ShouldSleep(Len(log)) THEN sleeps + 1 ELSE sleeps
              /\ ret' = IF Len(log) + 1 < retries THEN "none" ELSE "False"
    /\ IF call.method = "DELETE"
         THEN /\ clearReq' = clearReq \cup {call.table}
              /\ UNCHANGED posts
         ELSE /\ posts' = [posts EXCEPT ![call.table] = call.chunk]
              /\ UNCHANGED clearReq
    /\ UNCHANGED <<pc, config, dbVars, fetchVars, table_index, chunk_index,
                   chunks, call, cleared, uploaded, success, outcome, exitCode,
                   pure>>

\* make_request_with_retry: one iteration, with any outcome of the request
make_request_with_retry ==
    /\ \E o \in Outcomes : Attempt(o)
    /\ UNCHANGED <<requests, remote>>

\* Python's None in the place of a response
NoResponse == [kind |-> "none", status |-> 0]

\* make_request_with_retry: the second component of the returned pair,
\* "return True, response" and "return False, None"
ReturnedResponse == IF ret = "True" THEN log[Len(log)] ELSE NoResponse

\* a clear loop that goes on to the next table after a failed clear
ClearFailed_continue ==
    /\ table_index' = table_index + 1
    /\ pc' = "clear"
    /\ UNCHANGED <<success, cleared>>

\* the clear loop when the clear has exhausted its attempts
ClearFailed ==
    /\ Return("False")
    /\ UNCHANGED <<table_index, cleared>>

\* the clear loop after make_request_with_retry has returned
clear_return ==
    /\ pc = "clear_request"
    /\ ret # "none"
    /\ IF ret = "True"
         THEN /\ cleared' = cleared \cup {call.table}
              /\ table_index' = table_index + 1
              /\ pc' = "clear"
              /\ UNCHANGED success
         ELSE ClearFailed
    /\ UNCHANGED <<config, dbVars, fetchVars, chunk_index, chunks, callVars,
                   clearReq, posts, uploaded, outcome, exitCode, auxVars>>

\* the upload loop: one iteration up to the loop over the table's chunks
upload_loop ==
    /\ pc = "upload"
    /\ IF table_index > Len(table_names)
         THEN /\ Return("True")
              /\ UNCHANGED <<table_index, chunk_index, chunks>>
         ELSE LET table_name == table_names[table_index] IN
              IF table_name \in DOMAIN data /\ data[table_name] # << >>
              THEN /\ chunks' = chunk_data(data[table_name], chunk_size)
                   /\ chunk_index' = 1
                   /\ pc' = "chunks"
                   /\ UNCHANGED <<table_index, success>>
              ELSE \* no data to upload
                   /\ table_index' = table_index + 1
                   /\ UNCHANGED <<pc, chunk_index, chunks, success>>
    /\ UNCHANGED <<config, dbVars, fetchVars, callVars, histVars, outcome,
                   exitCode>>

\* the loop over chunks: one iteration up to make_request_with_retry
chunk_loop ==
    /\ pc = "chunks"
    /\ IF chunk_index > Len(chunks)
         THEN /\ table_index' = table_index + 1
              /\ pc' = "upload"
              /\ UNCHANGED callVars
         ELSE /\ StartCall("POST", table_names[table_index], chunk_index,
                           chunks[chunk_index])
              /\ pc' = "upload_request"
              /\ UNCHANGED table_index
    /\ UNCHANGED <<config, dbVars, fetchVars, chunk_index, chunks, histVars,
                   success, outcome, exitCode>>

\* a loop over chunks that goes on to the next chunk after a failed upload
UploadFailed_continue ==
    /\ chunk_index' = chunk_index + 1
    /\ pc' = "chunks"
    /\ UNCHANGED <<success, uploaded>>

\* the loop over chunks when a chunk has exhausted its attempts
UploadFailed ==
    /\ Return("False")
    /\ UNCHANGED <<chunk_index, uploaded>>

\* the loop over chunks after make_request_with_retry has returned
upload_return ==
    /\ pc = "upload_request"
    /\ ret # "none"
    /\ IF ret = "True"
         THEN /\ uploaded' = [uploaded EXCEPT ![call.table] = @ + 1]
              /\ chunk_index' = chunk_index + 1
              /\ pc' = "chunks"
              /\ UNCHANGED success
         ELSE UploadFailed
    /\ UNCHANGED <<config, dbVars, fetchVars, table_index, chunks, callVars,
                   clearReq, cleared, posts, outcome, exitCode, auxVars>>

\* main: conn.close() after clear_and_upload_data has returned
close_connection ==
    /\ pc = "close"
    /\ connOpen' = FALSE
    /\ closeCount' = closeCount + 1
    /\ pc' = "report"
    /\ UNCHANGED <<config, opened, fetchVars, xferVars, outcome, exitCode>>

\* a main that leaves with 0 on both branches
ExitCodeFor_zero(ok) == IF ok = "True" THEN 0 ELSE 0

\* the exit code of main's "if success / else"
ExitCodeFor(ok) == IF ok = "True" THEN 0 ELSE 1

\* main: the success or failure banner
report ==
    /\ pc = "report"
    /\ IF success = "True"
         THEN /\ outcome' = "success"
              /\ pc' = "countdown"
              /\ UNCHANGED exitCode
         ELSE Exit("sync_failed", ExitCodeFor(success))
    /\ UNCHANGED <<config, dbVars, fetchVars, xferVars>>

\* main: sys.exit(0) after the five second countdown
exit_success ==
    /\ pc = "countdown"
    /\ pc' = "exited"
    /\ exitCode' = ExitCodeFor(success)
    /\ UNCHANGED <<config, dbVars, fetchVars, xferVars, outcome>>

\* main's "except KeyboardInterrupt": the user may interrupt at any point
KeyboardInterrupt ==
    /\ pc # "exited"
    /\ Exit("cancelled", 1)
    /\ UNCHANGED <<config, dbVars, fetchVars, xferVars>>

Next ==
    \/ load_config
    \/ connect_to_database
    \/ fetch_data
    \/ api_config
    \/ clear_loop
    \/ make_request_with_retry
    \/ clear_return
    \/ upload_loop
    \/ chunk_loop
    \/ upload_return
    \/ close_connection
    \/ report
    \/ exit_success
    \/ KeyboardInterrupt

Spec == Init /\ [][Next]_vars

TypeOK ==
    /\ pc \in {"load_config", "connect", "fetch", "api_config", "clear",
               "clear_request", "upload", "chunks", "upload_request", "close",
               "report", "countdown", "exited"}
    /\ ret \in {"none", "True", "False"}
    /\ success \in {"none", "True", "False"}
    /\ exitCode \in {NotExited, 0, 1}
    /\ Len(log) <= retries

\* ---------------------------------------------------------------------
\* Vocabulary of the properties
\* ---------------------------------------------------------------------

\* position of a table in the order of clear_and_upload_data
Pos(t) == CHOOSE i \in 1..Len(table_names) : table_names[i] = t

\* an attempt that ended with one of the two status codes the client accepts
Succeeded(o) == o.kind = "response" /\ (o.status = 200 \/ o.status = 204)

\* an attempt that ended with a status code of the 2xx class
Is2xx(o) == o.kind = "response" /\ o.status >= 200 /\ o.status <= 299

AllFailed == \A i \in 1..Len(log) : ~Succeeded(log[i])

\* number of chunks of n records: ceil(n / 500)
NumChunks(n) == (n + 499) \div 500

\* this step issues a POST (resp. DELETE) request for table t
PostIssued(t) ==
    /\ call.method = "POST" /\ call.table = t
    /\ Len(log') = Len(log) + 1 /\ call' = call

DeleteIssued(t) ==
    /\ call.method = "DELETE" /\ call.table = t
    /\ Len(log') = Len(log) + 1 /\ call' = call

\* the clear of t (resp. the upload of chunk k of t) failed on every attempt
ClearExhausted(t) ==
    call.method = "DELETE" /\ call.table = t /\ ret = "False"

UploadExhausted(t, k) ==
    call.method = "POST" /\ call.table = t /\ call.chunk = k /\ ret = "False"

\* the run has ended as a failure (or was cancelled by the user)
EndsFailed ==
    /\ success # "True"
    /\ pc \in {"close", "report"} => success = "False"
    /\ pc = "exited" => exitCode = 1 /\ outcome \in {"sync_failed", "cancelled"}

\* C1: a POST request for a table is issued only when a DELETE request for
\* that table has returned success earlier in the run.
C1_ClearBeforeUpload ==
    [][\A t \in TableSet : PostIssued(t) => t \in cleared]_vars

C1_Witness ==
    /\ posts["batches"] = 2
    /\ "batches" \in cleared
    /\ uploaded["products"] = 1

\* C2: when the clear of table T has failed on every attempt, the function
\* returns failure, no upload request has been or will be issued for any
\* table, and no clear request is issued for a table after T.
C2_ClearFailureAborts ==
    \A T \in TableSet :
        ClearExhausted(T) =>
            /\ AllFailed
            /\ pc \in {"clear_request", "close", "report", "exited"}
            /\ EndsFailed
            /\ \A t \in TableSet : posts[t] = 0
            /\ \A t \in TableSet : Pos(t) > Pos(T) => t \notin clearReq

C2_Witness ==
    /\ ClearExhausted("batches")
    /\ "products" \in cleared
    /\ data["masters"] # << >>
    /\ pc = "exited"
    /\ outcome = "sync_failed"

\* C3: when chunk k of table T has failed on every attempt, chunks 1..k-1 of
\* T were uploaded successfully, chunk k was attempted exactly 3 times, no
\* later chunk of T and no chunk of a later table is ever attempted, every
\* earlier table with data is completely uploaded, and the run fails.
C3_UploadFailureAborts ==
    \A T \in TableSet :
        UploadExhausted(T, call.chunk) =>
            LET k == call.chunk IN
            /\ k >= 1
            /\ uploaded[T] = k - 1
            /\ Len(log) = 3 /\ AllFailed
            /\ posts[T] = k
            /\ pc \in {"upload_request", "close", "report", "exited"}
            /\ \A t \in TableSet : Pos(t) > Pos(T) => posts[t] = 0
            /\ \A t \in TableSet : Pos(t) < Pos(T) =>
                   /\ uploaded[t] = NumChunks(Len(data[t]))
                   /\ posts[t] = uploaded[t]
            /\ EndsFailed

C3_Witness ==
    /\ UploadExhausted("batches", 2)
    /\ Len(chunks) = 3
    /\ uploaded["products"] = 1
    /\ pc = "exited"
    /\ outcome = "sync_failed"

\* C4: a call of make_request_with_retry makes at most 3 attempts, makes no
\* attempt after a successful one, counts a refused status and a transport
\* error as one failed attempt each, and returns success exactly when one of
\* the attempts succeeded; two failures and then a 200 are 3 requests and
\* success.
C4_BoundedRetry ==
    /\ Len(log) <= 3
    /\ \A i \in 1..(Len(log) - 1) : ~Succeeded(log[i])
    /\ ret = "True" <=> (\E i \in 1..Len(log) : Succeeded(log[i]))
    /\ ret = "False" <=> (Len(log) = 3 /\ AllFailed)
    /\ (ret = "none" /\ call.method # "none") => Len(log) < 3
    /\ sleeps <= Len(log)

C4_Witness ==
    /\ call.method = "POST"
    /\ log = <<Response(500), TransportError, Response(200)>>
    /\ ret = "True"

\* C5: every response with a status code in 200..299 ends the call as a
\* success: it is the last attempt and the call returns success.
C5_Every2xxIsSuccess ==
    \A i \in 1..Len(log) : Is2xx(log[i]) => (i = Len(log) /\ ret = "True")

\* C6: in a run whose transfer went through, a clear request was issued for
\* every listed table, also for a table without records.
C6_EveryListedTableCleared ==
    success = "True" => \A t \in TableSet : t \in clearReq

\* C7: when the extraction of some table has failed, the run does not report
\* success and the process does not exit with code 0.
C7_ExtractionFailureFailsRun ==
    qfailed # {} => (outcome # "success" /\ exitCode # 0)

\* C8: a failed query does not end the extraction: the step in which a query
\* fails stores an empty record set for that table and goes on to the next
\* table (or returns after the last one); the queries are run in the order
\* products, batches, customers, users.
C8_FailedStep ==
    (pc = "fetch" /\ qfailed' # qfailed) =>
        /\ fetchIdx' = fetchIdx + 1
        /\ pc' = IF fetchIdx < 4 THEN "fetch" ELSE "api_config"
        /\ data'[DataKey(tables[fetchIdx])] = << >>
        /\ \A k \in DOMAIN data : data'[k] = data[k]

C8_Order ==
    /\ Len(queried) <= 4
    /\ \A i \in 1..Len(queried) :
         queried[i] = <<"products", "batches", "customers", "users">>[i]
    /\ \A t \in qfailed : DataKey(t) \in DOMAIN data /\ data[DataKey(t)] = << >>
    /\ pc \in {"api_config", "clear", "upload", "close", "report"} => Len(queried) = 4

C8_QueryFailureIsLocal == [][C8_FailedStep]_vars /\ []C8_Order

C8_Witness ==
    /\ "products" \in qfailed
    /\ pc = "exited" /\ exitCode = 0
    /\ data["users"] # << >>
    /\ data["batches"] # << >>

\* C9: once the connection has been opened, the process terminates only
\* after exactly one conn.close().
C9_ClosedExactlyOnce ==
    (pc = "exited" /\ opened > 0) => closeCount = 1

\* C10: exit code 0 only when every clear and every chunk upload that was
\* issued succeeded; exit code non-zero after a config error, a connection
\* error, an exhausted clear or upload, and a cancellation.
C10_ExitCodes ==
    /\ pc = "exited" <=> exitCode # NotExited
    /\ exitCode = 0 =>
          /\ success = "True"
          /\ ret # "False"
          /\ clearReq \subseteq cleared
          /\ \A t \in TableSet : posts[t] = uploaded[t]
    /\ (pc = "exited" /\ outcome \in {"config_error", "connection_error",
            "unexpected_error", "sync_failed", "cancelled"}) => exitCode = 1
    /\ (pc = "exited" /\ (ret = "False" \/ success = "False")) => exitCode = 1
    /\ (pc = "exited" /\ (~config.database \/ ~config.api)) => exitCode = 1

C10_Witness ==
    /\ pc = "exited"
    /\ exitCode = 0
    /\ uploaded["products"] = 2
    /\ uploaded["users"] = 1

\* ---------------------------------------------------------------------
\* chunk_data applied on its own
\* ---------------------------------------------------------------------

SeqsUpTo(S, n) == UNION {[1..k -> S] : k \in 0..n}

ChunkInit ==
    /\ Start
    /\ requests = NotKept
    /\ remote = NotKept
    /\ \E R \in SeqsUpTo(1..MaxElem, MaxLen), S \in 1..MaxChunk :
         pure = [fn |-> "chunk_data", data_list |-> R, size |-> S,
                 out |-> << >>, done |-> FALSE]

\* list(chunk_data(data_list, chunk_size=size))
chunk_apply ==
    /\ ~pure.done
    /\ pure' = [pure EXCEPT !.out = chunk_data(pure.data_list, pure.size),
                            !.done = TRUE]
    /\ UNCHANGED <<progVars, requests, remote>>

ChunkNext == chunk_apply

ChunkSpec == ChunkInit /\ [][ChunkNext]_vars

RECURSIVE Flatten(_)
Flatten(ss) == IF ss = << >> THEN << >> ELSE Head(ss) \o Flatten(Tail(ss))

\* C11: chunk_data(R, S) yields ceil(len(R)/S) chunks, none of them empty,
\* whose concatenation in order is R, all of length S but possibly the last;
\* an empty R yields no chunk.
C11_ChunkData ==
    pure.done =>
        LET R == pure.data_list
            S == pure.size
            cs == pure.out
        IN /\ Len(cs) * S >= Len(R)
           /\ (Len(cs) - 1) * S < Len(R) \/ (Len(cs) = 0 /\ R = << >>)
           /\ \A i \in 1..Len(cs) : cs[i] # << >>
           /\ Flatten(cs) = R
           /\ \A i \in 1..(Len(cs) - 1) : Len(cs[i]) = S
           /\ R = << >> => cs = << >>

C11_Witness ==
    /\ pure.done
    /\ pure.data_list = <<1, 2, 2, 1>>
    /\ pure.size = 3
    /\ pure.out = << <<1, 2, 2>>, <<1>> >>

\* ---------------------------------------------------------------------
\* the users transform applied on its own
\* ---------------------------------------------------------------------

FieldNames == {"id", "pass", "pass_field", "role"}
Records == UNION {[D -> 1..MaxVal] : D \in SUBSET FieldNames}

TransformInit ==
    /\ Start
    /\ requests = NotKept
    /\ remote = NotKept
    /\ \E r \in Records : pure = [fn |-> "transform", hist |-> <<r>>]

\* the body of "for user in results" applied once more to the same record
transform_apply ==
    /\ Len(pure.hist) < 3
    /\ pure' = [pure EXCEPT
                  !.hist = Append(@, transform(pure.hist[Len(pure.hist)]))]
    /\ UNCHANGED <<progVars, requests, remote>>

TransformNext == transform_apply

TransformSpec == TransformInit /\ [][TransformNext]_vars

\* C13: the users transform is idempotent: a second application to an
\* already transformed record leaves the record as the first one left it.
C13_TransformIdempotent ==
    Len(pure.hist) = 3 => pure.hist[3] = pure.hist[2]

C13_Witness ==
    /\ Len(pure.hist) = 3
    /\ pure.hist[1] = [id |-> 1, pass |-> 2, role |-> 1]
    /\ pure.hist[3] = [id |-> 1, pass_field |-> 2, role |-> 1]

\* ---------------------------------------------------------------------
\* clear_and_upload_data on its own, with the requests counted and the
\* remote service's tables kept
\* ---------------------------------------------------------------------

\* the table whose records fetch_data stores under key
TableOf(key) == IF key = "masters" THEN "customers" ELSE key

\* the state in which main() calls clear_and_upload_data after fetch_data has
\* extracted n[t] rows for table t
TransferStart(n) ==
    /\ pc = "api_config"
    /\ \E api \in BOOLEAN : config = [database |-> TRUE, api |-> api]
    /\ connOpen = TRUE
    /\ opened = 1
    /\ closeCount = 0
    /\ fetchIdx = Len(tables) + 1
    /\ data = [t \in TableSet |-> Rows(n[t])]
    /\ keys = [t \in TableSet |->
                 IF n[t] = 0 THEN {}
                 ELSE IF t = "users" THEN RenamePass(Columns(TableOf(t)))
                 ELSE Columns(TableOf(t))]
    /\ queried = tables
    /\ qfailed = {}
    /\ table_index = 1
    /\ chunk_index = 1
    /\ call = NoCall
    /\ log = << >>
    /\ ret = "none"
    /\ sleeps = 0
    /\ chunks = << >>
    /\ clearReq = {}
    /\ cleared = {}
    /\ posts = [t \in TableSet |-> 0]
    /\ uploaded = [t \in TableSet |-> 0]
    /\ success = "none"
    /\ outcome = "none"
    /\ exitCode = NotExited
    /\ pure = NotKept

\* no request sent yet
NoRequests == [del |-> [t \in TableSet |-> 0], post |-> [t \in TableSet |-> 0]]

\* the remote tables before the run: each holds a row (written 0) of an
\* earlier run
StaleRemote == [t \in TableSet |-> SetToBag({0})]

RECURSIVE SumOver(_, _)
SumOver(f, S) ==
    IF S = {} THEN 0
    ELSE LET x == CHOOSE y \in S : TRUE IN f[x] + SumOver(f, S \ {x})

\* the request of this attempt is counted
CountRequest ==
    requests' = IF call.method = "DELETE"
                THEN [requests EXCEPT !.del[call.table] = @ + 1]
                ELSE [requests EXCEPT !.post[call.table] = @ + 1]

\* the remote service carries the request out (applied) or not: a clear
\* removes all rows of the table, an upload adds the rows of the chunk
RemoteEffect(applied) ==
    remote' = IF ~applied THEN remote
              ELSE IF call.method = "DELETE"
              THEN [remote EXCEPT ![call.table] = EmptyBag]
              ELSE [remote EXCEPT ![call.table] =
                       @ (+) SetToBag({call.data[i] : i \in 1..Len(call.data)})]

\* what the remote service did with a request that ended with outcome o: a
\* request answered with a 2xx status was carried out, one answered with
\* another status was not, one that ended in a timeout or a lost connection
\* may or may not have been
Served(o, applied) == o.kind = "response" => (applied <=> Is2xx(o))

\* one attempt with an outcome of outs, counted and served
tracked_request(outs) ==
    \E o \in outs, applied \in BOOLEAN :
        /\ Served(o, applied)
        /\ Attempt(o)
        /\ CountRequest
        /\ RemoteEffect(applied)

\* one attempt with an outcome of outs, counted
counted_request(outs) ==
    /\ \E o \in outs : Attempt(o) /\ CountRequest
    /\ UNCHANGED remote

\* one attempt with an outcome of outs, served
served_request(outs) ==
    /\ \E o \in outs, applied \in BOOLEAN :
          /\ Served(o, applied)
          /\ Attempt(o)
          /\ RemoteEffect(applied)
    /\ UNCHANGED requests

\* ---- every request succeeds ----
OkSizes == {k * OkUnit : k \in 0..OkMaxUnits}

OkInit ==
    \E n \in [TableSet -> OkSizes] :
        /\ SumOver(n, TableSet) <= OkMaxUnits * OkUnit
        /\ TransferStart(n)
        /\ requests = NoRequests
        /\ remote = StaleRemote

ok_request == tracked_request({o \in Outcomes : Accepted(o)})

OkNext ==
    \/ api_config
    \/ clear_loop
    \/ ok_request
    \/ clear_return
    \/ upload_loop
    \/ chunk_loop
    \/ upload_return

OkSpec == OkInit /\ [][OkNext]_vars

\* records (i-1)*500+1 .. min(i*500, N) of a list
Slice(list, i) ==
    [j \in 1..(Min(i * 500, Len(list)) - (i - 1) * 500) |-> list[(i - 1) * 500 + j]]

C12_PostStep ==
    \A t \in TableSet :
        PostIssued(t) =>
            /\ requests.post[t] = call.chunk - 1
            /\ requests'.post[t] = call.chunk
            /\ call.data = Slice(data[t], call.chunk)

C12_Count ==
    success = "True" =>
        \A t \in TableSet : requests.post[t] = NumChunks(Len(data[t]))

\* C12: when every request succeeds on its first attempt, a table with N
\* records receives exactly ceil(N/500) upload requests, the i-th carrying
\* records (i-1)*500+1 .. min(i*500, N); 1250 records are 3 requests of
\* 500, 500 and 250 records.
C12_ChunkedUploads == [][C12_PostStep]_vars /\ []C12_Count

C12_Witness ==
    /\ success = "True"
    /\ Len(data["products"]) = 1250
    /\ requests.post["products"] = 3
    /\ Len(chunks[1]) = 500 /\ Len(chunks[2]) = 500 /\ Len(chunks[3]) = 250
    /\ chunks[3][250] = 1250

\* C14: when a clear or an upload has exhausted its attempts, the value
\* returned to the caller carries the last observed status code or
\* transport error.
C14_FailureCarriesLastError ==
    ret = "False" =>
        /\ ReturnedResponse # NoResponse
        /\ ReturnedResponse = log[Len(log)]

\* C15: within one call the 2-second delay is taken after every failed
\* attempt except the third, never after a successful attempt and never
\* after the failed third attempt; a call that fails 3 times has waited
\* exactly twice.
C15_SleepBetweenAttempts ==
    /\ sleeps = Cardinality({i \in 1..Len(log) : ~Succeeded(log[i]) /\ i < 3})
    /\ ret = "False" => sleeps = 2
    /\ ret = "True" => sleeps = Len(log) - 1

C15_Witness ==
    /\ ret = "False"
    /\ log = <<Response(500), TransportError, Response(201)>>
    /\ sleeps = 2

\* ---- any outcome of the requests, requests counted ----
XferSizes == {k * XferUnit : k \in 0..XferMaxUnits}

XferInit ==
    \E n \in [TableSet -> XferSizes] :
        /\ SumOver(n, TableSet) <= XferMaxUnits * XferUnit
        /\ TransferStart(n)
        /\ requests = NoRequests
        /\ remote = NotKept

xfer_request == counted_request(Outcomes)

XferNext ==
    \/ api_config
    \/ clear_loop
    \/ xfer_request
    \/ clear_return
    \/ upload_loop
    \/ chunk_loop
    \/ upload_return

\* the function keeps running until it returns: every attempt returns or
\* raises within its timeout
XferSpec == XferInit /\ [][XferNext]_vars /\ WF_vars(XferNext)

TotalRequests == SumOver(requests.del, TableSet) + SumOver(requests.post, TableSet)
NonEmptyTables == {t \in TableSet : data[t] # << >>}
TotalChunks == SumOver([t \in TableSet |-> NumChunks(Len(data[t]))], TableSet)

C16_Returned == pc = "close" /\ success \in {"True", "False"}
C16_RequestBound == TotalRequests <= 3 * (Cardinality(NonEmptyTables) + TotalChunks)

\* C16: clear_and_upload_data eventually returns True or False, whatever the
\* input and the outcomes of the attempts, and has then issued at most
\* 3 * (number of non-empty tables + total number of chunks) requests.
C16_Terminates == <>C16_Returned /\ []C16_RequestBound

C16_Witness ==
    /\ C16_Returned
    /\ success = "True"
    /\ Cardinality(NonEmptyTables) = 1
    /\ TotalChunks = 2
    /\ TotalRequests = 3 * (Cardinality(NonEmptyTables) + TotalChunks)

\* the table has records to transfer
HasData(t) == t \in DOMAIN data /\ data[t] # << >>

C17_Step ==
    \A t \in TableSet :
        /\ PostIssued(t) => \A u \in TableSet : HasData(u) => u \in cleared
        /\ DeleteIssued(t) => \A u \in TableSet : posts[u] = 0

\* C17: no upload request is issued before the clear of every table with
\* data has succeeded, and no clear request is issued once an upload request
\* has been issued.
C17_ClearPhaseIsBarrier == [][C17_Step]_vars

C17_Witness ==
    /\ posts["products"] = 1
    /\ uploaded["products"] = 0
    /\ cleared = {"products", "batches", "users"}

\* C18: when the run has failed in the upload phase at table T, every table
\* with data after T has been cleared successfully and has received no
\* upload request.
C18_LaterTablesLeftEmpty ==
    \A T \in TableSet :
        UploadExhausted(T, call.chunk) =>
            \A t \in TableSet :
                (Pos(t) > Pos(T) /\ HasData(t)) =>
                    (t \in cleared /\ posts[t] = 0 /\ uploaded[t] = 0)

C18_Witness ==
    /\ UploadExhausted("products", 1)
    /\ HasData("batches") /\ HasData("users")
    /\ Len(data["users"]) > 500
    /\ pc = "exited"
    /\ outcome = "sync_failed"

\* every clear and every chunk upload that was issued has succeeded
AllIssuedSucceeded ==
    /\ clearReq \subseteq cleared
    /\ \A t \in TableSet : posts[t] = uploaded[t]

\* C20 as stated: clear_and_upload_data returns True exactly when every
\* clear and every chunk upload it issued succeeded.
C20_TrueIffAllSucceeded ==
    success # "none" => (success = "True" <=> AllIssuedSucceeded)

\* C20, amended: with the api section present in the configuration,
\* clear_and_upload_data returns True exactly when every clear and every
\* chunk upload it issued succeeded, and without it the function returns
\* False without a request; when no table has records it issues no request
\* and returns True.
C20_TrueIffAllSucceededWithApi ==
    success # "none" =>
        /\ success = "True" <=> (config.api /\ AllIssuedSucceeded)
        /\ ~config.api => (clearReq = {} /\ call = NoCall)
        /\ (config.api /\ \A t \in TableSet : ~HasData(t)) =>
              (success = "True" /\ clearReq = {} /\ call = NoCall
               /\ \A t \in TableSet : posts[t] = 0)

C20_Witness ==
    /\ success = "True"
    /\ \A t \in TableSet : ~HasData(t)
    /\ call = NoCall
    /\ pc = "exited"

\* ---- any outcome of the requests, remote tables kept ----
RemoteInit ==
    \E n \in [TableSet -> XferSizes] :
        /\ SumOver(n, TableSet) <= XferMaxUnits * XferUnit
        /\ TransferStart(n)
        /\ requests = NotKept
        /\ remote = StaleRemote

remote_request == served_request(Outcomes)

RemoteNext ==
    \/ api_config
    \/ clear_loop
    \/ remote_request
    \/ clear_return
    \/ upload_loop
    \/ chunk_loop
    \/ upload_return

RemoteSpec == RemoteInit /\ [][RemoteNext]_vars /\ WF_vars(RemoteNext)

\* C19: when the run reports success, the remote copy of every table with
\* data holds exactly the records extracted in this run, each of them once.
C19_RemoteIsExactCopy ==
    success = "True" =>
        \A t \in TableSet :
            HasData(t) =>
                remote[t] = SetToBag({data[t][i] : i \in 1..Len(data[t])})

====
